---- MODULE Spec2Model ----
(***************************************************************************)
(* A model of the Pygame ray tracer: the geometric primitives and their    *)
(* ray_test algorithms (objects3d.py), the camera's pixel mapping          *)
(* (camera.py) and the per-pixel Phong shading loop and scanline driver    *)
(* (main.py).                                                              *)
(*                                                                         *)
(* Numbers.  The program computes in floating point; the model computes in *)
(* fixed point over the integers, rounding every quotient to the nearest   *)
(* integer and every square root down.                                     *)
(*   - a unit vector (a normalised direction, a normal, a box axis) is     *)
(*     held multiplied by One, so 1.0 is One;                              *)
(*   - lengths (positions, t, radii, extents) are in units of 0.0001/One,  *)
(*     so the program's constant 0.0001 is One length units;               *)
(*   - colours are held multiplied by ColorOne.                            *)
(* On inputs whose quotients and roots are whole (axis-aligned vectors,    *)
(* Pythagorean directions such as (2,2,1)/3 and (3,4,0)/5) the model's     *)
(* arithmetic is exact.                                                    *)
(***************************************************************************)
EXTENDS Integers, Sequences, FiniteSets, TLC

VARIABLES
    \* --- primitives under test (objects3d.py) ---
    box,        \* a Box object; its axes are mutated by rotate_x/y/z
    lastKind,   \* the class whose ray_test ran last ("none" before any call)
    lastObj,    \* the object it ran on
    lastRay,    \* the ray it was given
    lastHits,   \* the list it returned
    triTests,   \* Triangle.ray_test calls made during that call
    \* --- TriangleMesh.__init__ reading its file (objects3d.py) ---
    verts, tris, min_vert, max_vert,
    meshState,  \* "reading", "built" (constructor returned) or "error" (it raised)
    meshBox,    \* the bounding Box of a built mesh
    badFace,    \* some face line read so far named an index outside 1..len(verts)
    badTris,    \* how many Triangles were built from such face lines
    \* --- rendering (main.py, camera.py) ---
    width, height,            \* config.SCREEN_WIDTH, config.SCREEN_HEIGHT
    camera, objects, lights,  \* the scene handed to draw_scene
    pc,         \* position in draw_scene / draw_pixel
    px, py,     \* the loop variables x and y of draw_scene
    ray,        \* draw_pixel: the primary ray
    hits,       \* draw_pixel: the local variable hits
    closest,    \* draw_pixel: the local variable closest
    primary,    \* the value min(hits) had at line 38 (kept for reference)
    lit_color,  \* draw_pixel: the local variable lit_color
    li,         \* index of the light the loop of line 43 is at
    shadeLog,   \* per light already processed: what the iteration read and decided
    surface,    \* pixel -> colour written by set_at, or Unset
    writes,     \* the sequence of set_at calls, in order
    flips,      \* number of pg.display.flip() calls
    err         \* the exception that ended the render, or "none"

primVars == <<box, lastKind, lastObj, lastRay, lastHits, triTests>>
meshVars == <<verts, tris, min_vert, max_vert, meshState, meshBox, badFace, badTris>>
sceneVars == <<width, height, camera, objects, lights>>
pixelVars == <<ray, hits, closest, primary, lit_color, li, shadeLog>>
renderVars == <<sceneVars, pc, px, py, pixelVars, surface, writes, flips, err>>
vars == <<primVars, meshVars, renderVars>>

----------------------------------------------------------------------------
(* Fixed-point arithmetic *)

One == 15
ColorOne == 10

Abs(a) == IF a < 0 THEN -a ELSE a

\* a / b in floating point: the quotient, rounded to the nearest integer
RDiv(a, b) ==
    LET q == (2 * Abs(a) + Abs(b)) \div (2 * Abs(b))
    IN  IF (a < 0) = (b < 0) THEN q ELSE -q

RECURSIVE SqrtSearch(_, _, _)
SqrtSearch(n, lo, hi) ==
    IF lo >= hi THEN lo
    ELSE LET mid == (lo + hi + 1) \div 2
         IN  IF mid * mid <= n THEN SqrtSearch(n, mid, hi)
             ELSE SqrtSearch(n, lo, mid - 1)

\* math.sqrt, rounded down
Sqrt(n) == SqrtSearch(n, 0, IF n < 46340 THEN n ELSE 46340)

----------------------------------------------------------------------------
(* pygame.math.Vector3 *)

Zero == <<0, 0, 0>>
Add(v, w) == <<v[1] + w[1], v[2] + w[2], v[3] + w[3]>>
Sub(v, w) == <<v[1] - w[1], v[2] - w[2], v[3] - w[3]>>
Neg(v) == <<-v[1], -v[2], -v[3]>>
Mul(k, v) == <<k * v[1], k * v[2], k * v[3]>>
Dot(v, w) == v[1] * w[1] + v[2] * w[2] + v[3] * w[3]
Cross(v, w) ==
    << v[2] * w[3] - v[3] * w[2],
       v[3] * w[1] - v[1] * w[3],
       v[1] * w[2] - v[2] * w[1] >>
\* v / k, each component rounded
DivVec(v, k) == <<RDiv(v[1], k), RDiv(v[2], k), RDiv(v[3], k)>>
MagSq(v) == Dot(v, v)

Nonzeros(v) == Cardinality({i \in 1..3 : v[i] # 0})

\* Vector3.magnitude(); a vector along one coordinate axis needs no root
Mag(v) ==
    IF Nonzeros(v) <= 1 THEN Abs(v[1]) + Abs(v[2]) + Abs(v[3])
    ELSE Sqrt(MagSq(v))

\* Vector3.normalize(): v / |v| as a unit vector (times One).  pygame raises
\* ValueError on the zero vector; callers test v = Zero first.
Normalize(v) ==
    IF Nonzeros(v) <= 1 \/ MagSq(v) > 9000000 THEN DivVec(Mul(One, v), Mag(v))
    ELSE DivVec(Mul(One * One, v), Sqrt(MagSq(v) * One * One))

----------------------------------------------------------------------------
(* objects3d.py: Ray and RayIntersection *)

\* Ray.__init__
Ray(pos, dir) == [pos |-> pos, dir |-> Normalize(dir)]

\* Ray.get_point
get_point(r, t) == Add(r.pos, DivVec(Mul(t, r.dir), One))

\* RayIntersection.__init__; object is a reference to the primitive that was hit
RayIntersection(r, object, pos, normal, t) ==
    [ray |-> r, object |-> object, pos |-> pos, normal |-> Normalize(normal), t |-> t]

\* RayIntersection.__lt__
Lt(a, b) == a.t < b.t

\* the builtin min() over a non-empty list: the first element no other is less than
RECURSIVE MinFrom(_, _, _)
MinFrom(s, i, best) ==
    IF i > Len(s) THEN best
    ELSE MinFrom(s, i + 1, IF Lt(s[i], best) THEN s[i] ELSE best)

Min(s) == MinFrom(s, 2, s[1])

\* flatten
RECURSIVE flatten(_)
flatten(L) == IF L = <<>> THEN <<>> ELSE Head(L) \o flatten(Tail(L))

----------------------------------------------------------------------------
(* objects3d.py: the primitives.  An object is a record carrying its class
   name in the field kind. *)

EPSILON == 15       \* the 0.0001 of main.py line 74, in length units
BOX_TOLERANCE == 15 \* the 0.0001 of Box.ray_test, in length units
AREA_TOL_NUM == 10001   \* the 1.0001 of Triangle.ray_test is
AREA_TOL_DEN == 10000   \*   AREA_TOL_NUM / AREA_TOL_DEN

\* Plane.__init__; d is held multiplied by One
Plane(matl, pos, normal) ==
    [kind |-> "Plane", matl |-> matl, pos |-> pos, normal |-> Normalize(normal),
     d |-> Dot(pos, Normalize(normal))]

\* Plane.ray_test
PlaneRayTest(self, r) ==
    LET nd == Dot(self.normal, r.dir)
    IN  IF nd = 0 THEN <<>>
        ELSE LET t == RDiv((self.d - Dot(r.pos, self.normal)) * One, nd)
             IN  IF t > 0
                 THEN <<RayIntersection(r, self, get_point(r, t), self.normal, t)>>
                 ELSE <<>>

\* Sphere.__init__
Sphere(matl, pos, radius) ==
    [kind |-> "Sphere", matl |-> matl, pos |-> pos, radius |-> radius,
     radius2 |-> radius * radius]

SphereRayTestLargerRoot(self, r) ==
    LET L == Sub(self.pos, r.pos)
        tca == RDiv(Dot(L, r.dir), One)
        d2 == MagSq(L) - tca * tca
    IN  IF tca < 0 \/ d2 > self.radius2 THEN <<>>
        ELSE LET t1 == tca + Sqrt(self.radius2 - d2)
                 point == get_point(r, t1)
             IN  <<RayIntersection(r, self, point, Normalize(Sub(point, self.pos)), t1)>>

\* Sphere.ray_test
SphereRayTest(self, r) ==
    LET L == Sub(self.pos, r.pos)
        tca == RDiv(Dot(L, r.dir), One)
    IN  IF tca < 0 THEN <<>>
        ELSE LET d2 == MagSq(L) - tca * tca
             IN  IF d2 > self.radius2 THEN <<>>
                 ELSE LET thc == Sqrt(self.radius2 - d2)
                          ta == tca - thc
                          tb == tca + thc
                          t0 == IF ta > tb THEN tb ELSE ta
                          t1 == IF ta > tb THEN ta ELSE tb
                          tt == IF t0 < 0 THEN t1 ELSE t0
                      IN  IF tt < 0 THEN <<>>
                          ELSE LET point == get_point(r, tt)
                               IN  <<RayIntersection(r, self, point,
                                        Normalize(Sub(point, self.pos)), tt)>>

\* Box.__init__
Box(matl, pos, extents) ==
    [kind |-> "Box", matl |-> matl, pos |-> pos, extents |-> extents,
     axes |-> << <<One, 0, 0>>, <<0, One, 0>>, <<0, 0, One>> >>]

\* Box.ray_test, lines 126-128: the point p is within the extents on all axes
BoxContains(self, p) ==
    LET lp == Sub(self.pos, p)
    IN  \A i \in 1..3 :
            /\ (-self.extents[i] - BOX_TOLERANCE) * One < Dot(lp, self.axes[i])
            /\ Dot(lp, self.axes[i]) < (self.extents[i] + BOX_TOLERANCE) * One

BoxSideAnyT(self, r, normal, d) ==
    LET den == Dot(r.dir, normal)
    IN  IF den = 0 THEN <<>>
        ELSE LET t == RDiv(d - One * Dot(r.pos, normal), den)
                 p == get_point(r, t)
             IN  IF BoxContains(self, p)
                 THEN <<RayIntersection(r, self, p, normal, t)>>
                 ELSE <<>>

\* Box.ray_test, lines 113-129: one side of the box, the plane normal . x = d
\* (d is held multiplied by One * One)
BoxSide(self, r, normal, d) ==
    LET den == Dot(r.dir, normal)
    IN  IF den = 0 THEN <<>>    \* ZeroDivisionError: continue
        ELSE LET t == RDiv(d - One * Dot(r.pos, normal), den)
             IN  IF t >= 0
                 THEN LET p == get_point(r, t)
                      IN  IF BoxContains(self, p)
                          THEN <<RayIntersection(r, self, p, normal, t)>>
                          ELSE <<>>
                 ELSE <<>>

\* Box.ray_test, lines 107-112: the two sides across one axis
BoxAxis(self, r, i) ==
    LET axis == self.axes[i]
        extent == self.extents[i]
        d0 == Dot(Sub(Mul(One, self.pos), Mul(extent, axis)), Neg(axis))
        d1 == Dot(Add(Mul(One, self.pos), Mul(extent, axis)), axis)
    IN  BoxSide(self, r, Neg(axis), d0) \o BoxSide(self, r, axis, d1)

\* Box.ray_test
BoxRayTest(self, r) == BoxAxis(self, r, 1) \o BoxAxis(self, r, 2) \o BoxAxis(self, r, 3)

\* math.cos and math.sin of q quarter turns, times One
Cos(q) == CASE q % 4 = 0 -> One [] q % 4 = 2 -> -One [] OTHER -> 0
Sin(q) == CASE q % 4 = 1 -> One [] q % 4 = 3 -> -One [] OTHER -> 0

rotate_x_sequential(self, q) ==
    [self EXCEPT !.axes = [i \in 1..3 |->
        LET axis == self.axes[i]
            y == RDiv(axis[2] * Cos(q) - axis[3] * Sin(q), One)
        IN  << axis[1], y, RDiv(y * Sin(q) + axis[3] * Cos(q), One) >>]]

\* Box.rotate_x by q quarter turns
rotate_x(self, q) ==
    [self EXCEPT !.axes = [i \in 1..3 |->
        LET axis == self.axes[i]
        IN  << axis[1],
               RDiv(axis[2] * Cos(q) - axis[3] * Sin(q), One),
               RDiv(axis[2] * Sin(q) + axis[3] * Cos(q), One) >>]]

\* Box.rotate_y by q quarter turns
rotate_y(self, q) ==
    [self EXCEPT !.axes = [i \in 1..3 |->
        LET axis == self.axes[i]
        IN  << RDiv(axis[1] * Cos(q) + axis[3] * Sin(q), One),
               axis[2],
               RDiv(-axis[1] * Sin(q) + axis[3] * Cos(q), One) >>]]

\* Box.rotate_z by q quarter turns
rotate_z(self, q) ==
    [self EXCEPT !.axes = [i \in 1..3 |->
        LET axis == self.axes[i]
        IN  << RDiv(axis[1] * Cos(q) - axis[2] * Sin(q), One),
               RDiv(axis[1] * Sin(q) + axis[2] * Cos(q), One),
               axis[3] >>]]

\* Triangle.__init__
Triangle(matl, a, b, c) == [kind |-> "Triangle", matl |-> matl, a |-> a, b |-> b, c |-> c]

\* Triangle.ray_test, lines 180-186: the barycentric-area test.  The code halves
\* each magnitude; the halves cancel in the ratio, which is compared here
\* without dividing.
TriangleContains(self, p) ==
    LET ab == Sub(self.b, self.a)
        ac == Sub(self.c, self.a)
        ap == Sub(p, self.a)
        area_abc == Mag(Cross(ab, ac))
        area_abp == Mag(Cross(ab, ap))
        area_apc == Mag(Cross(ap, ac))
        area_pbc == Mag(Cross(Sub(self.b, p), Sub(self.c, p)))
    IN  (area_abp + area_apc + area_pbc) * AREA_TOL_DEN <= AREA_TOL_NUM * area_abc

\* Triangle.ray_test
TriangleRayTest(self, r) ==
    LET normal == Normalize(Cross(Sub(self.b, self.a), Sub(self.c, self.a)))
        dp == Dot(normal, r.dir)
    IN  IF dp = 0 THEN <<>>
        ELSE LET t == RDiv((Dot(normal, self.a) - Dot(r.pos, normal)) * One, dp)
             IN  IF t < 0 THEN <<>>
                 ELSE LET p == get_point(r, t)
                      IN  IF TriangleContains(self, p)
                          THEN <<RayIntersection(r, self, p, normal, t)>>
                          ELSE <<>>

TriangleMeshRunNoReject(self, r) ==
    [hits |-> flatten([i \in 1..Len(self.tris) |-> TriangleRayTest(self.tris[i], r)]),
     tests |-> Len(self.tris)]

\* TriangleMesh.ray_test: the list it returns and the number of Triangle.ray_test
\* calls it makes
TriangleMeshRun(self, r) ==
    IF BoxRayTest(self.box, r) = <<>>
    THEN [hits |-> <<>>, tests |-> 0]
    ELSE [hits |-> flatten([i \in 1..Len(self.tris) |-> TriangleRayTest(self.tris[i], r)]),
          tests |-> Len(self.tris)]

TriangleMeshRayTest(self, r) == TriangleMeshRun(self, r).hits

\* object.ray_test(ray): the method of the object's class
ray_test(object, r) ==
    CASE object.kind = "Plane" -> PlaneRayTest(object, r)
      [] object.kind = "Sphere" -> SphereRayTest(object, r)
      [] object.kind = "Box" -> BoxRayTest(object, r)
      [] object.kind = "Triangle" -> TriangleRayTest(object, r)
      [] object.kind = "TriangleMesh" -> TriangleMeshRayTest(object, r)

----------------------------------------------------------------------------
(* objects3d.py: TriangleMesh.__init__.  A line of the file is a record
   [tag, vals]: tag "v" with the three coordinates float() returned, or tag
   "f" with the three integers int() returned. *)

MaxVerts == 3   \* vertex lines in a file
MaxFaces == 2   \* face lines in a file

None == <<>>

\* list[i] in Python for a list held as a sequence: the index is in range
PyInRange(list, i) == -Len(list) <= i /\ i < Len(list)
\* list[i] in Python: a negative index counts from the end
PyIndex(list, i) == IF i >= 0 THEN list[i + 1] ELSE list[Len(list) + i + 1]

\* lines 203-208: the vertex a "v" line adds
NewVert(line, offset) == Add(line.vals, offset)

\* lines 209-220: min_vert and max_vert after a vertex
MinVertAfter(mn, new_vert) ==
    IF mn = None THEN new_vert
    ELSE [i \in 1..3 |-> IF new_vert[i] < mn[i] THEN new_vert[i] ELSE mn[i]]
MaxVertAfter(mx, new_vert) ==
    IF mx = None THEN new_vert
    ELSE [i \in 1..3 |-> IF new_vert[i] > mx[i] THEN new_vert[i] ELSE mx[i]]

\* line 222: i0, i1, i2
FaceIndices(line) == [k \in 1..3 |-> line.vals[k] - 1]

\* lines 223-228 raise IndexError unless all three subscripts are in range
FaceOk(vs, line) == \A k \in 1..3 : PyInRange(vs, FaceIndices(line)[k])

\* lines 223-228: the Triangle a "f" line adds
FaceTriangle(matl, vs, line) ==
    Triangle(matl, PyIndex(vs, FaceIndices(line)[1]),
                   PyIndex(vs, FaceIndices(line)[2]),
                   PyIndex(vs, FaceIndices(line)[3]))

\* lines 229-231: the bounding Box
BoundingBox(matl, mn, mx) == Box(matl, DivVec(Add(mn, mx), 2), DivVec(Sub(mx, mn), 2))

\* a face line names a vertex index outside 1..(vertex lines read so far)
FaceOutOfRange(vs, line) == \E k \in 1..3 : line.vals[k] < 1 \/ line.vals[k] > Len(vs)

\* the constructor run over a whole file, as a value: the mesh object, or
\* None when it raised
RECURSIVE MeshFrom(_, _, _, _, _, _, _)
MeshFrom(matl, offset, lines, vs, ts, mn, mx) ==
    IF lines = <<>>
    THEN IF mn = None THEN None
         ELSE [kind |-> "TriangleMesh", matl |-> matl, tris |-> ts,
               box |-> BoundingBox(matl, mn, mx)]
    ELSE LET line == Head(lines)
         IN  IF line.tag = "v"
             THEN LET nv == NewVert(line, offset)
                  IN  MeshFrom(matl, offset, Tail(lines), Append(vs, nv), ts,
                               MinVertAfter(mn, nv), MaxVertAfter(mx, nv))
             ELSE IF FaceOk(vs, line)
                  THEN MeshFrom(matl, offset, Tail(lines), vs,
                                Append(ts, FaceTriangle(matl, vs, line)), mn, mx)
                  ELSE None

TriangleMesh(matl, offset, lines) == MeshFrom(matl, offset, lines, <<>>, <<>>, None, None)

V(x, y, z) == [tag |-> "v", vals |-> <<x, y, z>>]
F(i, j, k) == [tag |-> "f", vals |-> <<i, j, k>>]

----------------------------------------------------------------------------
(* Materials (main.py, lines 132-163), colours times ColorOne *)

Red == [ambi |-> <<3, 0, 0>>, diff |-> <<10, 0, 0>>, spec |-> <<10, 10, 10>>, hard |-> 2]
Green == [ambi |-> <<0, 5, 0>>, diff |-> <<0, 10, 0>>, spec |-> <<10, 0, 0>>, hard |-> 2]
Blue == [ambi |-> <<0, 0, 1>>, diff |-> <<0, 0, 10>>, spec |-> <<10, 0, 10>>, hard |-> 3]

----------------------------------------------------------------------------
(* The mesh constructor, line by line *)

MeshMatl == Blue
MeshOffset == <<0, 0, 30>>

\* the vertex lines and face lines a file is made of
VertexLines == {V(0, 0, 0), V(60, 0, 0), V(0, 60, 0)}
FaceLines ==
    {F(1, 2, 3), F(3, 1, 2), F(1, 1, 2), F(0, 1, 2), F(1, 2, -1), F(-2, 1, 2),
     F(1, 2, 4), F(1, 9, 2), F(-9, 1, 2)}

IdleMesh ==
    /\ verts = <<>> /\ tris = <<>> /\ min_vert = None /\ max_vert = None
    /\ meshState = "idle" /\ meshBox = None /\ badFace = FALSE /\ badTris = 0

\* lines 194-199
InitMesh ==
    /\ verts = <<>> /\ tris = <<>> /\ min_vert = None /\ max_vert = None
    /\ meshState = "reading" /\ meshBox = None /\ badFace = FALSE /\ badTris = 0

\* lines 202-220: the loop body on a line that starts with v
ReadVertex(line) ==
    /\ meshState = "reading"
    /\ Len(verts) < MaxVerts
    /\ verts' = Append(verts, NewVert(line, MeshOffset))
    /\ min_vert' = MinVertAfter(min_vert, NewVert(line, MeshOffset))
    /\ max_vert' = MaxVertAfter(max_vert, NewVert(line, MeshOffset))
    /\ UNCHANGED <<tris, meshState, meshBox, badFace, badTris>>

\* lines 221-228: the loop body on a line that starts with f
ReadFace(line) ==
    /\ meshState = "reading"
    /\ Len(tris) < MaxFaces
    /\ badFace' = (badFace \/ FaceOutOfRange(verts, line))
    /\ IF FaceOk(verts, line)
       THEN /\ tris' = Append(tris, FaceTriangle(MeshMatl, verts, line))
            /\ badTris' = badTris + (IF FaceOutOfRange(verts, line) THEN 1 ELSE 0)
            /\ UNCHANGED meshState
       ELSE /\ meshState' = "error"     \* IndexError leaves __init__
            /\ UNCHANGED <<tris, badTris>>
    /\ UNCHANGED <<verts, min_vert, max_vert, meshBox>>

\* lines 229-231: the file is exhausted
EndOfFile ==
    /\ meshState = "reading"
    /\ IF min_vert = None
       THEN /\ meshState' = "error"     \* TypeError: None + None
            /\ UNCHANGED meshBox
       ELSE /\ meshState' = "built"
            /\ meshBox' = BoundingBox(MeshMatl, min_vert, max_vert)
    /\ UNCHANGED <<verts, tris, min_vert, max_vert, badFace, badTris>>

NextMesh ==
    \/ \E line \in VertexLines : ReadVertex(line) /\ UNCHANGED <<primVars, renderVars>>
    \/ \E line \in FaceLines : ReadFace(line) /\ UNCHANGED <<primVars, renderVars>>
    \/ EndOfFile /\ UNCHANGED <<primVars, renderVars>>

----------------------------------------------------------------------------
(* The primitives under test: ray_test of each class applied to rays, and a
   Box turned by rotate_x / rotate_y / rotate_z *)

RayOrigins ==
    {<<0, 0, -150>>, <<45, 0, -150>>, <<60, 0, -150>>, <<90, 0, -150>>,
     <<0, 0, 0>>, <<0, 0, 30>>, <<150, 150, 75>>}
RayDirs ==
    {<<0, 0, 1>>, <<0, 0, -1>>, <<0, 0, 5>>, <<1, 0, 0>>, <<-1, 0, 0>>, <<0, 1, 0>>,
     <<2, 2, 1>>, <<-2, -2, -1>>, <<3, 0, 4>>, <<1, 1, 1>>}
Rays == {Ray(o, d) : o \in RayOrigins, d \in RayDirs}

Planes ==
    {Plane(Green, <<0, 0, 0>>, <<0, 0, 1>>), Plane(Green, <<0, 30, 0>>, <<0, 2, 0>>),
     Plane(Green, <<0, 0, 60>>, <<0, 0, -1>>), Plane(Green, <<0, 0, 0>>, <<3, 4, 0>>)}
Spheres == {Sphere(Red, <<0, 0, 0>>, 75), Sphere(Red, <<0, 0, 30>>, 15)}
Triangles ==
    {Triangle(Blue, <<-30, -30, 0>>, <<30, -30, 0>>, <<0, 30, 0>>),
     Triangle(Blue, <<0, 0, 0>>, <<30, 0, 0>>, <<0, 30, 30>>),
     Triangle(Blue, <<-30, -30, -300>>, <<30, -30, -300>>, <<0, 30, -300>>)}
Tetrahedron ==
    TriangleMesh(Blue, <<0, 0, 0>>,
        <<V(-30, -30, 0), V(30, -30, 0), V(0, 30, 0), V(0, 0, 60),
          F(1, 2, 3), F(1, 2, 4), F(2, 3, 4), F(3, 1, 4)>>)
Sheet ==
    TriangleMesh(Blue, <<0, 0, -300>>,
        <<V(-30, -30, 0), V(30, -30, 0), V(30, 30, 0), V(-30, 30, 0),
          F(1, 2, 3), F(1, 3, 4)>>)
Meshes == {Tetrahedron, Sheet}
TestBox == Box(Green, <<0, 0, 0>>, <<45, 30, 15>>)
Angles == {1, 2, 3}     \* quarter turns

IdlePrim ==
    /\ box = TestBox
    /\ lastKind = "none" /\ lastObj = None /\ lastRay = None /\ lastHits = <<>>
    /\ triTests = 0

\* a Box as constructed, a ray to cast, and no ray_test call made yet
InitPrim ==
    /\ box = TestBox
    /\ lastKind = "none" /\ lastObj = None /\ lastRay \in Rays /\ lastHits = <<>>
    /\ triTests = 0

RotateX(q) == box' = rotate_x(box, q) /\ UNCHANGED <<lastKind, lastObj, lastRay, lastHits, triTests>>
RotateY(q) == box' = rotate_y(box, q) /\ UNCHANGED <<lastKind, lastObj, lastRay, lastHits, triTests>>
RotateZ(q) == box' = rotate_z(box, q) /\ UNCHANGED <<lastKind, lastObj, lastRay, lastHits, triTests>>

\* object.ray_test(lastRay) returned result after tests Triangle.ray_test calls
Called(object, result, tests) ==
    /\ lastKind' = object.kind
    /\ lastObj' = object
    /\ lastHits' = result
    /\ triTests' = tests
    /\ UNCHANGED <<box, lastRay>>

PlaneTest(object) == Called(object, PlaneRayTest(object, lastRay), 0)
SphereTest(object) == Called(object, SphereRayTest(object, lastRay), 0)
BoxTest == Called(box, BoxRayTest(box, lastRay), 0)
TriangleTest(object) == Called(object, TriangleRayTest(object, lastRay), 1)
MeshTest(object) ==
    Called(object, TriangleMeshRun(object, lastRay).hits,
           TriangleMeshRun(object, lastRay).tests)

NextPrim ==
    \/ \E q \in Angles : RotateX(q) /\ UNCHANGED <<meshVars, renderVars>>
    \/ \E q \in Angles : RotateY(q) /\ UNCHANGED <<meshVars, renderVars>>
    \/ \E q \in Angles : RotateZ(q) /\ UNCHANGED <<meshVars, renderVars>>
    \/ \E o \in Planes : PlaneTest(o) /\ UNCHANGED <<meshVars, renderVars>>
    \/ \E o \in Spheres : SphereTest(o) /\ UNCHANGED <<meshVars, renderVars>>
    \/ BoxTest /\ UNCHANGED <<meshVars, renderVars>>
    \/ \E o \in Triangles : TriangleTest(o) /\ UNCHANGED <<meshVars, renderVars>>
    \/ \E o \in Meshes : MeshTest(o) /\ UNCHANGED <<meshVars, renderVars>>

----------------------------------------------------------------------------
(* camera.py *)

ASPECT_RATIO == 1   \* config.ASPECT_RATIO

\* Camera.__init__, with tan(0.5 * radians(fov)) given as the whole number
\* tan_half_fov (1 for fov = 90)
Camera(pos, coi, up, tan_half_fov, near) ==
    LET z_axis == Normalize(Sub(coi, pos))
        x_axis == Normalize(Cross(up, z_axis))
        y_axis == DivVec(Cross(z_axis, x_axis), One)
        view_height == 2 * near * tan_half_fov
        view_width == ASPECT_RATIO * view_height
    IN  [pos |-> pos, x_axis |-> x_axis, y_axis |-> y_axis, z_axis |-> z_axis,
         view_height |-> view_height, view_width |-> view_width,
         view_origin |->
            Add(Add(Sub(pos, DivVec(Mul(view_width, x_axis), 2 * One)),
                    DivVec(Mul(view_height, y_axis), 2 * One)),
                DivVec(Mul(near, z_axis), One))]

\* Camera.get_pixel_pos_3d: the point, or the exception raised
get_pixel_pos_3d(self, w, h, x, y) ==
    IF w - 1 = 0 \/ h - 1 = 0 THEN [raised |-> "ZeroDivisionError", pos |-> Zero]
    ELSE [raised |-> "none",
          pos |-> Sub(Add(self.view_origin,
                          DivVec(Mul(self.view_width * x, self.x_axis), (w - 1) * One)),
                      DivVec(Mul(self.view_height * y, self.y_axis), (h - 1) * One))]

----------------------------------------------------------------------------
(* main.py: draw_pixel and draw_scene *)

AMBIENT_LIGHT_COLOR == <<5, 5, 5>>      \* config.AMBIENT_LIGHT_COLOR
BACKGROUND == <<128, 128, 128>>         \* line 95
Unset == <<>>

\* hadamard
hadamard(v, w) == DivVec(<<v[1] * w[1], v[2] * w[2], v[3] * w[3]>>, ColorOne)

ClampTo(lo, a, hi) == IF a < lo THEN lo ELSE IF a > hi THEN hi ELSE a
\* clamp_vec3 with the defaults lo = 0.0, hi = 1.0
clamp_vec3(v) == [i \in 1..3 |-> ClampTo(0, v[i], ColorOne)]

\* s ** n for a unit-scaled s > 0 and a whole exponent n >= 1
RECURSIVE Pow(_, _)
Pow(s, n) == IF n <= 1 THEN s ELSE RDiv(s * Pow(s, n - 1), One)

\* lines 46-71 for one light and the intersection c: the vectors and colours
\* computed before the shadow test
Illumination(c, light, cam) ==
    LET to_light == Sub(light.pos, c.pos)
        light_dir == Normalize(to_light)
        diff_strength == RDiv(Dot(light_dir, c.normal), One)
        diff_color ==
            IF diff_strength > 0
            THEN DivVec(Mul(diff_strength, hadamard(light.diff, c.object.matl.diff)), One)
            ELSE Zero
        reflect_dir == Sub(DivVec(Mul(2 * diff_strength, c.normal), One), light_dir)
        camera_dir == Normalize(Sub(cam.pos, c.pos))
        spec_strength == RDiv(Dot(camera_dir, reflect_dir), One)
        spec_color ==
            IF spec_strength > 0
            THEN DivVec(Mul(Pow(spec_strength, c.object.matl.hard),
                            hadamard(light.spec, c.object.matl.spec)), One)
            ELSE Zero
    IN  [to_light |-> to_light, light_dir |-> light_dir, diff_strength |-> diff_strength,
         diff_color |-> diff_color, spec_color |-> spec_color,
         matl |-> c.object.matl,
         shadow_ray |-> Ray(Add(c.pos, DivVec(Mul(EPSILON, c.normal), One)), light_dir)]

\* lines 75-87: the loop over the objects from the i-th on; c and hs are the
\* values the locals closest and hits have when the loop gets there
RECURSIVE ShadowLoop(_, _, _, _, _, _)
ShadowLoop(objs, i, shadow_ray, to_light, c, hs) ==
    IF i > Len(objs) THEN [in_shadow |-> FALSE, closest |-> c, hits |-> hs]
    ELSE LET h == ray_test(objs[i], shadow_ray)
         IN  IF h # <<>>
             THEN IF Min(h).t * Min(h).t < MagSq(to_light)
                  THEN [in_shadow |-> TRUE, closest |-> Min(h), hits |-> h]    \* break
                  ELSE ShadowLoop(objs, i + 1, shadow_ray, to_light, Min(h), h)
             ELSE ShadowLoop(objs, i + 1, shadow_ray, to_light, c, h)

\* lines 31-33
RECURSIVE AllHits(_, _, _)
AllHits(objs, i, r) ==
    IF i > Len(objs) THEN <<>> ELSE ray_test(objs[i], r) \o AllHits(objs, i + 1, r)

PickFirst(hs) == hs[1]
\* line 38
Closest(hs) == Min(hs)

\* the colour set_at stores for clamp_vec3(lit_color) * 255
PixelColor(c) == DivVec(Mul(255, clamp_vec3(c)), ColorOne)

Pixels == {<<x, y>> : x \in 0..(width - 1), y \in 0..(height - 1)}

\* surface.set_at((px, py), color)
SetAt(color) ==
    /\ surface' = [surface EXCEPT ![<<px, py>>] = color]
    /\ writes' = Append(writes, <<px, py>>)

Raise(e) ==
    /\ err' = e
    /\ pc' = "crashed"

\* draw_pixel running on the primary ray r whose hits are hs, lines 37-42 and
\* 93-95: start shading the nearest hit, or write the background colour
ShadeOrBackground(r, hs) ==
    /\ ray' = r
    /\ hits' = hs
    /\ shadeLog' = <<>>
    /\ UNCHANGED err
    /\ IF hs # <<>>
       THEN /\ closest' = Closest(hs)
            /\ primary' = Closest(hs)
            /\ lit_color' = hadamard(AMBIENT_LIGHT_COLOR, Closest(hs).object.matl.ambi)
            /\ li' = 1
            /\ pc' = "light"
            /\ UNCHANGED <<surface, writes>>
       ELSE /\ closest' = None
            /\ primary' = None
            /\ lit_color' = Zero
            /\ li' = 0
            /\ SetAt(BACKGROUND)
            /\ pc' = "events"

\* draw_pixel, lines 28-42 and 93-95: cast the primary ray and collect the hits
CastPrimary ==
    /\ pc = "pixel"
    /\ \E pp \in {get_pixel_pos_3d(camera, width, height, px, py)} :
         IF pp.raised # "none"
         THEN /\ Raise(pp.raised)
              /\ UNCHANGED <<pixelVars, surface, writes>>
         ELSE IF Sub(pp.pos, camera.pos) = Zero
         THEN /\ Raise("ValueError")     \* Ray.__init__ normalises the zero vector
              /\ UNCHANGED <<pixelVars, surface, writes>>
         ELSE \E r \in {Ray(camera.pos, Sub(pp.pos, camera.pos))} :
                \E hs \in {AllHits(objects, 1, r)} : ShadeOrBackground(r, hs)
    /\ UNCHANGED <<sceneVars, px, py, flips>>

\* draw_pixel, lines 43-89: one iteration of the loop over the lights
ShadeLight ==
    /\ pc = "light"
    /\ li <= Len(lights)
    /\ IF Sub(lights[li].pos, closest.pos) = Zero \/ Sub(camera.pos, closest.pos) = Zero
       THEN /\ Raise("ValueError")      \* lines 47, 63 normalise the zero vector
            /\ UNCHANGED <<hits, closest, lit_color, li, shadeLog>>
       ELSE \E il \in {Illumination(closest, lights[li], camera)} :
            \E sh \in {ShadowLoop(objects, 1, il.shadow_ray, il.to_light, closest, hits)} :
                /\ closest' = sh.closest
                /\ hits' = sh.hits
                /\ lit_color' = IF sh.in_shadow THEN lit_color
                                ELSE Add(lit_color, Add(il.diff_color, il.spec_color))
                /\ shadeLog' = Append(shadeLog,
                        [shaded |-> closest, light_dir |-> il.light_dir,
                         diff_strength |-> il.diff_strength, matl |-> il.matl,
                         shadow_origin |-> il.shadow_ray.pos,
                         contribution |-> Add(il.diff_color, il.spec_color),
                         added |-> ~sh.in_shadow])
                /\ li' = li + 1
                /\ UNCHANGED <<pc, err>>
    /\ UNCHANGED <<sceneVars, px, py, ray, primary, surface, writes, flips>>

\* draw_pixel, line 92
WritePixel ==
    /\ pc = "light"
    /\ li > Len(lights)
    /\ SetAt(PixelColor(lit_color))
    /\ pc' = "events"
    /\ UNCHANGED <<sceneVars, px, py, pixelVars, flips, err>>

\* draw_scene, line 103 with no quit event pending, and the step of the inner loop
ProcessEvents ==
    /\ pc = "events"
    /\ IF px + 1 < width
       THEN px' = px + 1 /\ pc' = "pixel"
       ELSE px' = px /\ pc' = "flip"
    /\ UNCHANGED <<sceneVars, py, pixelVars, surface, writes, flips, err>>

\* process_events, lines 110-115: QUIT or Escape raises SystemExit
UserQuits ==
    /\ pc = "events"
    /\ pc' = "aborted"
    /\ err' = "SystemExit"
    /\ UNCHANGED <<sceneVars, px, py, pixelVars, surface, writes, flips>>

\* draw_scene, line 105, and the step of the outer loop
Flip ==
    /\ pc = "flip"
    /\ flips' = flips + 1
    /\ px' = 0
    /\ py' = py + 1
    /\ pc' = IF py + 1 < height THEN "pixel" ELSE "done"
    /\ UNCHANGED <<sceneVars, pixelVars, surface, writes, err>>

----------------------------------------------------------------------------
(* The scenes rendered *)

MaxWidth == 3
MaxHeight == 3

\* the camera at the origin looking along +z, fov = 2 * atan(2): the corner
\* pixels' rays have the directions (+-2, +-2, 1) / 3
SceneCamera == Camera(<<0, 0, 0>>, <<0, 0, 15>>, <<0, 15, 0>>, 2, 15)

Light(pos, diff, spec) == [pos |-> pos, diff |-> diff, spec |-> spec]

\* a floor, and a ball on the ray of the top left pixel
Floor == Plane(Green, <<0, -60, 0>>, <<0, 1, 0>>)
Ball == Sphere(Red, <<-150, 150, 75>>, 75)
Wall == Plane(Blue, <<0, 0, 300>>, <<0, 0, -1>>)
Crate == Box(Green, <<120, 120, 60>>, <<30, 30, 15>>)
Kite ==
    TriangleMesh(Blue, <<0, 0, 45>>,
        <<V(60, 60, 0), V(120, 60, 0), V(60, 120, 0), V(120, 120, 0),
          F(1, 2, 3), F(2, 4, 3)>>)

LampLow == Light(<<100, -100, -50>>, <<10, 10, 10>>, <<10, 10, 10>>)
LampHigh == Light(<<-100, 400, 50>>, <<3, 0, 0>>, <<0, 6, 0>>)
LampFront == Light(<<0, 0, -150>>, <<10, 10, 10>>, <<10, 10, 10>>)

Scenes ==
    { [objects |-> <<Floor, Ball>>, lights |-> <<LampLow, LampHigh>>],
      [objects |-> <<Wall, Floor, Ball, Crate>>, lights |-> <<LampFront, LampHigh>>],
      [objects |-> <<Kite, Ball, Wall>>, lights |-> <<LampFront>>],
      [objects |-> <<Ball>>, lights |-> <<>>] }

IdleRender ==
    /\ width = 0 /\ height = 0 /\ camera = None /\ objects = <<>> /\ lights = <<>>
    /\ pc = "idle" /\ px = 0 /\ py = 0
    /\ ray = None /\ hits = <<>> /\ closest = None /\ primary = None
    /\ lit_color = Zero /\ li = 0 /\ shadeLog = <<>>
    /\ surface = <<>> /\ writes = <<>> /\ flips = 0 /\ err = "none"

\* main, lines 121-200: the screen, the scene, and draw_scene about to render
\* its first pixel
InitRender ==
    /\ width \in 1..MaxWidth /\ height \in 1..MaxHeight
    /\ camera = SceneCamera
    /\ \E s \in Scenes : objects = s.objects /\ lights = s.lights
    /\ pc = "pixel" /\ px = 0 /\ py = 0
    /\ ray = None /\ hits = <<>> /\ closest = None /\ primary = None
    /\ lit_color = Zero /\ li = 0 /\ shadeLog = <<>>
    /\ surface = [p \in Pixels |-> Unset] /\ writes = <<>> /\ flips = 0 /\ err = "none"

NextRender ==
    \/ CastPrimary /\ UNCHANGED <<primVars, meshVars>>
    \/ ShadeLight /\ UNCHANGED <<primVars, meshVars>>
    \/ WritePixel /\ UNCHANGED <<primVars, meshVars>>
    \/ ProcessEvents /\ UNCHANGED <<primVars, meshVars>>
    \/ UserQuits /\ UNCHANGED <<primVars, meshVars>>
    \/ Flip /\ UNCHANGED <<primVars, meshVars>>

RenderInit == IdlePrim /\ IdleMesh /\ InitRender
SpecRender == RenderInit /\ [][NextRender]_vars

PrimInit == InitPrim /\ IdleMesh /\ IdleRender
SpecPrim == PrimInit /\ [][NextPrim]_vars

MeshInit == IdlePrim /\ InitMesh /\ IdleRender
SpecMesh == MeshInit /\ [][NextMesh]_vars

----------------------------------------------------------------------------
(* Properties of the primitives (checked under SpecPrim) *)

\* the Box is hit-tested and rotated, never moved or resized
Orthonormal(axes) ==
    \A i, j \in 1..3 : Dot(axes[i], axes[j]) = (IF i = j THEN One * One ELSE 0)

\* C7: after any sequence of rotate_x / rotate_y / rotate_z calls by multiples
\* of 90 degrees the three axes of the Box are mutually orthogonal and of unit
\* length, and its centre and extents are those given at construction.
C7_BoxStaysRigid ==
    /\ Orthonormal(box.axes)
    /\ box.pos = TestBox.pos
    /\ box.extents = TestBox.extents

\* C7 witness: the Box has been turned so that none of its axes is where it was
C7_Witness ==
    /\ \A i \in 1..3 : box.axes[i] # TestBox.axes[i]
    /\ box.axes[1] = <<0, One, 0>>

\* the ray and sphere of the last call, where the model's arithmetic is exact:
\* the direction has length One and tca is a whole number
SphereL == Sub(lastObj.pos, lastRay.pos)
SphereExact ==
    /\ MagSq(lastRay.dir) = One * One
    /\ Dot(SphereL, lastRay.dir) % One = 0
\* perpendicular distance squared from the centre to the ray's line, times One^2
SpherePerp2 == One * One * MagSq(SphereL) - Dot(SphereL, lastRay.dir) * Dot(SphereL, lastRay.dir)
\* the parameters t at which the ray's line meets the sphere
MaxT == 600
SphereRoots ==
    {t \in -MaxT..MaxT :
        MagSq(Sub(Mul(t, lastRay.dir), Mul(One, SphereL))) = One * One * lastObj.radius2}
SetMin(S) == CHOOSE m \in S : \A n \in S : m <= n
SetMax(S) == CHOOSE m \in S : \A n \in S : m >= n
\* the ray points straight at the centre, from outside the sphere
AimedAtCentre ==
    /\ Mul(Mag(SphereL), lastRay.dir) = Mul(One, SphereL)
    /\ Mag(SphereL) * Mag(SphereL) = MagSq(SphereL)
    /\ Mag(SphereL) > lastObj.radius

\* C8: Sphere.ray_test returns no intersection or exactly one; the one returned
\* has t equal to the smaller root when that is non-negative and the larger root
\* otherwise; a ray aimed at the centre from distance D > radius gives exactly
\* one hit with t = D - radius; a ray whose perpendicular distance to the centre
\* exceeds the radius gives none.
C8_SphereOneHit ==
    lastKind = "Sphere" =>
        /\ Len(lastHits) <= 1
        /\ (SphereExact /\ Len(lastHits) = 1 /\ Cardinality(SphereRoots) >= 1) =>
                lastHits[1].t = (IF SetMin(SphereRoots) >= 0 THEN SetMin(SphereRoots)
                                 ELSE SetMax(SphereRoots))
        /\ AimedAtCentre =>
                /\ Len(lastHits) = 1
                /\ lastHits[1].t = Mag(SphereL) - lastObj.radius
        /\ (SphereExact /\ SpherePerp2 > One * One * lastObj.radius2) => lastHits = <<>>

\* C8 witness: a ray aimed at the centre from outside has been tested and hit
C8_Witness ==
    /\ lastKind = "Sphere"
    /\ AimedAtCentre
    /\ Len(lastHits) = 1
    /\ Cardinality(SphereRoots) = 2

\* C9: every intersection any ray_test returns has t >= 0.
C9_NonNegativeT ==
    \A i \in 1..Len(lastHits) : lastHits[i].t >= 0

\* C9 witness: a ray starting inside the Box was tested: the side in front of
\* it is returned, the side behind it (negative parameter) is not
C9_Witness ==
    /\ lastKind = "Box"
    /\ BoxContains(box, lastRay.pos)
    /\ Len(lastHits) = 1
    /\ lastHits[1].t > 0

\* C6: when the bounding Box returns no intersection, TriangleMesh.ray_test
\* returns an empty list and calls no Triangle.ray_test; when the Box is hit the
\* result is the concatenation of every triangle's result, none of it an
\* intersection of the bounding Box.
C6_MeshRejection ==
    lastKind = "TriangleMesh" =>
        IF BoxRayTest(lastObj.box, lastRay) = <<>>
        THEN lastHits = <<>> /\ triTests = 0
        ELSE /\ lastHits = flatten([i \in 1..Len(lastObj.tris) |->
                                        TriangleRayTest(lastObj.tris[i], lastRay)])
             /\ triTests = Len(lastObj.tris)
             /\ \A i \in 1..Len(lastHits) : lastHits[i].object \in
                    {lastObj.tris[k] : k \in 1..Len(lastObj.tris)}

\* C6 witness: a ray that misses the bounding Box but whose line crosses a
\* triangle of the mesh was tested
C6_Witness ==
    /\ lastKind = "TriangleMesh"
    /\ BoxRayTest(lastObj.box, lastRay) = <<>>
    /\ \E k \in 1..Len(lastObj.tris) :
          TriangleRayTest(lastObj.tris[k], [lastRay EXCEPT !.dir = Neg(lastRay.dir)]) # <<>>

----------------------------------------------------------------------------
(* Properties of the mesh constructor (checked under SpecMesh) *)

\* C5: a face line that names a vertex index outside 1..(vertex lines read so
\* far), index 0 and negative indices included, ends the construction in a
\* fatal error: no mesh object, and no triangle built from that face.
C5_BadFaceIsFatal ==
    badFace => (meshState = "error" /\ badTris = 0)

----------------------------------------------------------------------------
(* Properties of the renderer (checked under SpecRender) *)

\* the intersections every object's ray_test returns for the primary ray
PrimaryHits ==
    UNION {{ray_test(objects[i], ray)[j] : j \in 1..Len(ray_test(objects[i], ray))} :
           i \in 1..Len(objects)}

\* C3: the intersection shaded is one of minimum t among those ray_test of
\* every object of the scene returns for the primary ray; when none returns
\* any, nothing is shaded and the pixel gets the fixed background colour.
C3_NearestHit ==
    pc \in {"light", "events"} =>
        IF PrimaryHits = {}
        THEN /\ primary = None
             /\ shadeLog = <<>>
             /\ surface[<<px, py>>] = <<128, 128, 128>>
        ELSE /\ primary \in PrimaryHits
             /\ \A h \in PrimaryHits : primary.t <= h.t

\* C3 witness: shading has started on a hit that is not the first one found
C3_Witness ==
    /\ pc = "light" /\ li = 1
    /\ Len(hits) >= 2
    /\ primary.t < hits[1].t

\* C1: for every light, the second and later ones included, the light
\* direction, the diffuse strength, the material and the shadow-ray origin are
\* those of the nearest intersection of the primary ray; the shadow tests of
\* earlier lights do not change which intersection is shaded.
C1_ShadesPrimaryHit ==
    /\ pc = "light" => closest = primary
    /\ \A k \in 1..Len(shadeLog) :
          /\ shadeLog[k].shaded = primary
          /\ shadeLog[k].light_dir = Illumination(primary, lights[k], camera).light_dir
          /\ shadeLog[k].diff_strength = Illumination(primary, lights[k], camera).diff_strength
          /\ shadeLog[k].matl = primary.object.matl
          /\ shadeLog[k].shadow_origin = Illumination(primary, lights[k], camera).shadow_ray.pos

\* some object has an intersection with the shadow ray from the hit h toward
\* the light that is nearer than the light
Occluded(h, light) ==
    \E i \in 1..Len(objects) :
        \E j \in 1..Len(ray_test(objects[i], Illumination(h, light, camera).shadow_ray)) :
            LET x == ray_test(objects[i], Illumination(h, light, camera).shadow_ray)[j]
            IN  x.t * x.t < MagSq(Sub(light.pos, h.pos))

RECURSIVE AddedSum(_, _)
AddedSum(log, k) ==
    IF k = 0 THEN Zero
    ELSE Add(AddedSum(log, k - 1), IF log[k].added THEN log[k].contribution ELSE Zero)

\* C2: a light's diffuse+specular contribution is left out of the pixel colour
\* exactly when some object has a shadow-ray intersection with t squared
\* smaller than the squared distance from the hit to the light; the ambient
\* term is there in both cases.
C2_ShadowExactlyWhenOccluded ==
    /\ \A k \in 1..Len(shadeLog) :
          shadeLog[k].added = ~Occluded(primary, lights[k])
    /\ (pc = "light" /\ primary # None) =>
          lit_color = Add(hadamard(AMBIENT_LIGHT_COLOR, primary.object.matl.ambi),
                          AddedSum(shadeLog, Len(shadeLog)))

\* C4: for every screen size with width >= 1 and height >= 1 and every
\* in-range pixel, get_pixel_pos_3d returns a point and never fails (draw_pixel
\* calls it for each pixel of the screen; err records what it raised).
C4_PixelPosNeverFails ==
    /\ err # "ZeroDivisionError"
    /\ pc \in {"light", "events"} =>
          get_pixel_pos_3d(camera, width, height, px, py).raised = "none"

ScanOrder(w, h) == [k \in 1..(w * h) |-> <<(k - 1) % w, (k - 1) \div w>>]

\* C10: a render the user does not abort ends having written every pixel once,
\* in scanline order; a pixel is written before the next is computed; the scene
\* is the same after each pixel as before.
C10_ScanlineRender ==
    /\ pc \in {"done", "crashed"} => (pc = "done" /\ writes = ScanOrder(width, height))
    /\ Len(writes) <= width * height
    /\ writes = SubSeq(ScanOrder(width, height), 1, Len(writes))
    /\ pc = "pixel" => Len(writes) = py * width + px
    /\ camera = SceneCamera
    /\ \E s \in Scenes : objects = s.objects /\ lights = s.lights

====
